---- MODULE Spec2Model ----
(***************************************************************************)
(* Orchestration layer of scipy/interpolate/fitpack2.py: curve fit/refit,  *)
(* storage growth and retry, status-driven re-typing of a fitted spline,   *)
(* input validation before solver calls, and the evaluation facade.        *)
(* The FITPACK routines behind dfitpack/fitpack are external: a call       *)
(* returns any status and any sizes its contract allows.                   *)
(***************************************************************************)
EXTENDS Integers, Sequences, FiniteSets, TLC

VARIABLES
    klass,          \* self.__class__ of the curve object ("none" before construction)
    spline_class,   \* self._spline_class ("unset" until _set_class runs)
    ctor,           \* which __init__ built the object
    data,           \* self._data
    eval_args,      \* self._eval_args
    surf,           \* the bivariate object: fp, tck, degrees
    op,             \* the operation that ran last
    args,           \* its arguments
    calls,          \* the dfitpack/fitpack calls it made, in order
    warned,         \* the messages it passed to warnings.warn, in order
    raised,         \* the exception it raised, or "none"
    result          \* its return value

vars == <<klass, spline_class, ctor, data, eval_args, surf,
          op, args, calls, warned, raised, result>>

curve == <<klass, spline_class, ctor, data, eval_args>>

\* ------------------------------------------------------------------ bounds
MaxX == 3
MaxKnots == 2
MaxQuery == 1
MaxGridX == 3
MaxGridY == 2
MaxSurfKnots == 2

\* ------------------------------------------------------- input domains
None == "None"
NoData == [ier |-> None]
NoArgs == <<>>
\* no bivariate object
NoSurface == <<>>

Min(a, b) == IF a <= b THEN a ELSE b
Max(a, b) == IF a >= b THEN a ELSE b

Last(q) == q[Len(q)]

\* the status codes a curve solver call can come back with
CurfitIer == {-2, -1, 0, 1, 3, 10}

\* smoothing factors a caller passes
SValues == {-1, 0, 1}

\* spline degrees a caller passes
Degrees == {1, 3}

\* residuals a solver call reports
FpValues == {0, 1}

RECURSIVE SeqsUpTo(_, _)
SeqsUpTo(S, n) ==
    IF n = 0 THEN {<<>>}
    ELSE LET shorter == SeqsUpTo(S, n - 1)
         IN shorter \cup {Append(q, v) : q \in {r \in shorter : Len(r) = n - 1}, v \in S}

StrictlyIncreasing(q) == \A i \in 1..(Len(q) - 1) : q[i] < q[i + 1]

\* abscissae: strictly ascending samples on 0..MaxX
AscendingXs ==
    {q \in SeqsUpTo(0..MaxX, MaxX + 1) : Len(q) >= 2 /\ StrictlyIncreasing(q)}

\* the sample vector used for the smoothing fits
SmoothXs == {<<0, 1, 2, 3, 4>>}

\* ------------------------------------------------------- status messages
\* _curfit_messages.get(ier, 'ier=%s' % ier)
curfit_messages == {1, 2, 3, 10}
CurfitMessage(ier) ==
    IF ier \in curfit_messages THEN <<"_curfit_messages", ier>> ELSE <<"ier=%s", ier>>

FixedKnotsWarning == <<"smoothing factor unchanged for LSQ spline with fixed knots", 0>>

\* ------------------------------------------------------- classes
Builtin == {"UnivariateSpline", "InterpolatedUnivariateSpline", "LSQUnivariateSpline"}
Subclass == "Subclass"

\* an array of the data tuple, by name and length
Buf(name, size) == [buf |-> name, size |-> size]
\* a[:n]
Slice(a, n) == [buf |-> a.buf, size |-> Min(a.size, Max(n, 0))]
\* np.resize(a, nest)
Resize(a, nest) == [buf |-> a.buf, size |-> nest]

\* ------------------------------------------------------- dfitpack (curve)
\* what a curfit wrapper hands back: the inputs echoed, and n, t, c, fp,
\* fpint, nrdata, ier of its choosing, with buffers of capacity nest
CurfitReturn(x, k, s, nest, fpint, nrdata) ==
    {[x |-> x, k |-> k, s |-> s, n |-> n, t |-> Buf("t", nest), c |-> Buf("c", nest),
      fp |-> fp, fpint |-> fpint, nrdata |-> nrdata, ier |-> ier] :
        n \in {2 * (k + 1), nest}, fp \in FpValues, ier \in CurfitIer}

\* dfitpack.fpcurf0(x, y, k, w, xb, xe, s): the wrapper picks the capacity
fpcurf0(x, k, s) ==
    UNION {CurfitReturn(x, k, s, nest, Buf("fpint", nest), Buf("nrdata", nest)) :
             nest \in {2 * (k + 1), Len(x) + k + 1}}

\* dfitpack.fpcurf1(x, y, w, xb, xe, k, s, n, t, c, fp, fpint, nrdata, ier):
\* continues on the buffers it is given
fpcurf1(a) ==
    CurfitReturn(a.x, a.k, a.s, a.t.size,
                 Resize(a.fpint, a.t.size), Resize(a.nrdata, a.t.size))

\* dfitpack.fpcurfm1(x, y, k, t, w, xb, xe): fixed knots, s comes back as -1
fpcurfm1(x, k, t) ==
    {[x |-> x, k |-> k, s |-> -1, n |-> Len(t), t |-> Buf("t", Len(t)),
      c |-> Buf("c", Len(t)), fp |-> fp, fpint |-> Buf("fpint", Len(t)),
      nrdata |-> Buf("nrdata", Len(t)), ier |-> ier] :
        fp \in FpValues, ier \in CurfitIer}

\* a solver call as the log keeps it: the routine, the smoothing factor and
\* the knot capacity it was given, and the status it came back with
FitCall(fn, s, nest, ier) == [fn |-> fn, s |-> s, nest |-> nest, ier |-> ier]
\* an evaluator call: the routine, its arguments and its status
Call(fn, a, ret) == [fn |-> fn, arg |-> a, ret |-> ret]

\* ------------------------------------------------------- UnivariateSpline
\* set_class, as it would be with the class of every object replaced
set_class_always(kl, cls) == [spline_class |-> cls, klass |-> cls]
\* UnivariateSpline._set_class
set_class(kl, cls) ==
    [spline_class |-> cls, klass |-> IF kl \in Builtin THEN cls ELSE kl]

\* UnivariateSpline._reset_class, on self._data = d of an object of class kl
reset_class(d, kl, tag) ==
    LET keep == [spline_class |-> tag, klass |-> kl]
        typed == IF d.ier = 0 THEN keep
                 ELSE IF d.ier = -1 THEN set_class(kl, "InterpolatedUnivariateSpline")
                 ELSE IF d.ier = -2 THEN set_class(kl, "LSQUnivariateSpline")
                 ELSE IF d.ier = 1 THEN set_class(kl, "LSQUnivariateSpline")
                 ELSE keep
    IN [klass |-> typed.klass,
        spline_class |-> typed.spline_class,
        eval_args |-> <<Slice(d.t, d.n), Slice(d.c, d.n), d.k>>,
        warned |-> IF d.ier \in {0, -1, -2} THEN <<>> ELSE <<CurfitMessage(d.ier)>>]

\* the value n holds after the list comprehension of _reset_nest has run
\* (the comprehension's own variable n is left at its last element)
LeakedN == 12

\* the arguments _reset_nest passes on to dfitpack.fpcurf1
reset_nest_args(d, nest) ==
    [x |-> d.x, k |-> d.k, s |-> d.s, n |-> d.n,
     t |-> Resize(d.t, nest), c |-> Resize(d.c, nest), fp |-> LeakedN,
     fpint |-> Resize(d.fpint, nest), nrdata |-> Resize(d.nrdata, nest), ier |-> d.ier]

\* MaxNest, as it would be one short of the maximum bound
MaxNest_short(d) == Len(d.x) + d.k
\* nest = m+k+1 when _reset_nest is called without nest
MaxNest(d) == Len(d.x) + d.k + 1

\* the returns on which `if data[-1]==1` is false: the data is kept as it is
Kept(returns) == {d \in returns : d.ier # 1}

\* the returns on which `if data[-1]==1` is true, as the call _reset_nest(data)
\* makes of them: the capacity of the first call and the arguments of the second
Regrown(returns) ==
    {[nest0 |-> d.t.size, arg |-> reset_nest_args(d, MaxNest(d))] : d \in {e \in returns : e.ier = 1}}

Init ==
    /\ klass = "none"
    /\ spline_class = "unset"
    /\ ctor = "none"
    /\ data = NoData
    /\ eval_args = <<>>
    /\ surf = NoSurface
    /\ op = "none"
    /\ args = NoArgs
    /\ calls = <<>>
    /\ warned = <<>>
    /\ raised = "none"
    /\ result = None

\* self._data = d; self._reset_class()
Install(d, kl, tag) ==
    LET r == reset_class(d, kl, tag)
    IN /\ data' = d
       /\ klass' = r.klass
       /\ spline_class' = r.spline_class
       /\ eval_args' = r.eval_args
       /\ warned' = r.warned

\* UnivariateSpline.__init__, on the class itself or on a subclass of it
UnivariateSpline_init ==
    /\ op = "none"
    /\ \E x \in SmoothXs, k \in Degrees, s \in SValues, kl \in {"UnivariateSpline", Subclass} :
         /\ Len(x) > k
         /\ op' = "UnivariateSpline"
         /\ args' = [x |-> x, k |-> k, s |-> s]
         /\ ctor' = "UnivariateSpline"
         /\ raised' = "none"
         /\ result' = None
         /\ surf' = surf
         /\ \/ \E d0 \in Kept(fpcurf0(x, k, s)) :
                 /\ calls' = <<FitCall("fpcurf0", s, d0.t.size, d0.ier)>>
                 /\ Install(d0, kl, "unset")
            \/ \E r \in Regrown(fpcurf0(x, k, s)) : \E d1 \in fpcurf1(r.arg) :
                 /\ calls' = <<FitCall("fpcurf0", s, r.nest0, 1),
                               FitCall("fpcurf1", r.arg.s, r.arg.t.size, d1.ier)>>
                 /\ Install(d1, kl, "unset")

\* InterpolatedUnivariateSpline.__init__: one fpcurf0 call with s=0, no retry
InterpolatedUnivariateSpline_init ==
    /\ op = "none"
    /\ \E x \in SmoothXs, k \in Degrees, kl \in {"InterpolatedUnivariateSpline", Subclass} :
         /\ Len(x) > k
         /\ \E d0 \in fpcurf0(x, k, 0) :
              /\ op' = "InterpolatedUnivariateSpline"
              /\ args' = [x |-> x, k |-> k, s |-> 0]
              /\ ctor' = "InterpolatedUnivariateSpline"
              /\ raised' = "none"
              /\ result' = None
              /\ surf' = surf
              /\ calls' = <<FitCall("fpcurf0", 0, d0.t.size, d0.ier)>>
              /\ Install(d0, kl, "unset")

\* concatenate(([xb]*(k+1), t, [xe]*(k+1)))
Padded(t, xb, xe, k) ==
    [i \in 1..(k + 1) |-> xb] \o t \o [i \in 1..(k + 1) |-> xe]

\* alltrue(t[k+1:n-k] - t[k:n-k-1] > 0), t indexed from 0 in the source
KnotsAscending(t, k) ==
    LET n == Len(t)
    IN \A j \in k..(n - k - 2) : t[j + 2] - t[j + 1] > 0

\* bbox = [None]*2 by default; an entry is <<>> for None and <<v>> for the number v
BBoxes == {<< <<>>, <<>> >>, << <<0>>, <<MaxX>> >>}

InteriorKnots == SeqsUpTo(0..MaxX, MaxKnots)

\* data[:-3] + (None, None, data[-1])
DropWork(d) == [d EXCEPT !.fpint = Buf(None, 0), !.nrdata = Buf(None, 0)]

\* LSQUnivariateSpline.__init__
LSQUnivariateSpline_init ==
    /\ op = "none"
    /\ \E x \in AscendingXs, t \in InteriorKnots, bbox \in BBoxes, k \in Degrees,
          kl \in {"LSQUnivariateSpline", Subclass} :
         LET xb == IF bbox[1] = <<>> THEN x[1] ELSE bbox[1][1]
             xe == IF bbox[2] = <<>> THEN Last(x) ELSE bbox[2][1]
             tt == Padded(t, xb, xe, k)
         IN /\ Len(x) > k
            /\ op' = "LSQUnivariateSpline"
            /\ args' = [x |-> x, t |-> t, bbox |-> bbox, k |-> k]
            /\ result' = None
            /\ surf' = surf
            /\ IF ~KnotsAscending(tt, k)
               THEN /\ raised' = "ValueError"
                    /\ calls' = <<>>
                    /\ warned' = <<>>
                    /\ UNCHANGED curve
               ELSE \E d \in fpcurfm1(x, k, tt) :
                      /\ raised' = "none"
                      /\ ctor' = "LSQUnivariateSpline"
                      /\ calls' = <<FitCall("fpcurfm1", d.s, Len(tt), d.ier)>>
                      /\ Install(DropWork(d), kl, "unset")

\* an object came out of its constructor
Constructed == klass # "none"

\* refused, as it would be with the test written against s = 0
refused_zero(d) == d.s = 0
\* `if data[6]==-1`: the refit is refused
refused(d) == d.s = -1

\* with_smoothing, as it would be with the new s left out of the arguments
with_smoothing_old(d, s) == d
\* data[:6] + (s,) + data[7:]
with_smoothing(d, s) == [d EXCEPT !.s = s]

\* UnivariateSpline.set_smoothing_factor
set_smoothing_factor ==
    /\ Constructed
    /\ \E s \in SValues :
         /\ op' = "set_smoothing_factor"
         /\ args' = [s |-> s]
         /\ raised' = "none"
         /\ result' = None
         /\ surf' = surf
         /\ ctor' = ctor
         /\ IF refused(data)
            THEN /\ warned' = <<FixedKnotsWarning>>
                 /\ calls' = <<>>
                 /\ UNCHANGED <<klass, spline_class, data, eval_args>>
            ELSE LET a0 == with_smoothing(data, s)
                 IN \/ \E d0 \in Kept(fpcurf1(a0)) :
                         /\ calls' = <<FitCall("fpcurf1", a0.s, a0.t.size, d0.ier)>>
                         /\ Install(d0, klass, spline_class)
                    \/ \E r \in Regrown(fpcurf1(a0)) : \E d1 \in fpcurf1(r.arg) :
                         /\ calls' = <<FitCall("fpcurf1", a0.s, r.nest0, 1),
                                       FitCall("fpcurf1", r.arg.s, r.arg.t.size, d1.ier)>>
                         /\ Install(d1, klass, spline_class)

\* query points and derivative orders a caller passes
Queries == SeqsUpTo({0}, MaxQuery)
DerOrders == {0, 1}

\* empty, as it would be without the test for empty input
empty_never(x) == FALSE
\* x.size == 0
empty(x) == Len(x) = 0

\* UnivariateSpline.__call__
call ==
    /\ Constructed
    /\ \E x \in Queries, nu \in DerOrders :
         /\ op' = "__call__"
         /\ args' = [x |-> x, nu |-> nu]
         /\ raised' = "none"
         /\ warned' = <<>>
         /\ IF empty(x)
            THEN /\ result' = Buf("array", 0)
                 /\ calls' = <<>>
            ELSE /\ result' = Buf("array", Len(x))
                 /\ calls' = <<Call("splev", <<x, eval_args, nu>>, 0)>>
         /\ UNCHANGED <<curve, surf>>

\* what dfitpack.sproot reports: the number of zeros found and its status
SprootReturn == {[m |-> m, ier |-> ier] : m \in 0..1, ier \in {0, 10}}

\* sproot_args, as it would be with the whole of _eval_args passed on
sproot_args_all(ea) == ea
\* self._eval_args[:2]
sproot_args(ea) == SubSeq(ea, 1, 2)

\* UnivariateSpline.roots
roots ==
    /\ Constructed
    /\ op' = "roots"
    /\ args' = NoArgs
    /\ warned' = <<>>
    /\ UNCHANGED <<curve, surf>>
    /\ IF data.k = 3
       THEN \E r \in SprootReturn :
              /\ calls' = <<Call("sproot", sproot_args(eval_args), r.ier)>>
              /\ IF r.ier # 0
                 THEN raised' = "ValueError" /\ result' = None
                 ELSE raised' = "none" /\ result' = Buf("z", r.m)
       ELSE /\ calls' = <<>>
            /\ raised' = "NotImplementedError"
            /\ result' = None

\* ------------------------------------------------------- RectBivariateSpline
\* grid axes: any samples among GridValues, up to MaxGridX resp. MaxGridY of them
GridValues == {0, 1, 2}
GridXs == SeqsUpTo(GridValues, MaxGridX)
GridYs == SeqsUpTo(GridValues, MaxGridY)

\* z.shape
GridShapes == (0..MaxGridX) \X (0..MaxGridY)

\* the status codes a surface solver call can come back with
SurfitIer == {-5, -3, -2, -1, 0, 1, 4, 7, 10, 12}

\* diff(x)
diff(x) == [i \in 1..(Len(x) - 1) |-> x[i + 1] - x[i]]

\* all(diff(x) > 0.0)
AllDiffPositive(x) == \A i \in DOMAIN diff(x) : diff(x)[i] > 0

SeqMin(x) == CHOOSE v \in {x[i] : i \in DOMAIN x} : \A j \in DOMAIN x : v <= x[j]
SeqMax(x) == CHOOSE v \in {x[i] : i \in DOMAIN x} : \A j \in DOMAIN x : v >= x[j]

\* _surfit_messages.get(ier, 'ier=%s' % ier)
surfit_messages == {1, 2, 3, 4, 5, 10, -3}
SurfitMessage(ier) ==
    IF ier \in surfit_messages THEN <<"_surfit_messages", ier>> ELSE <<"ier=%s", ier>>

\* dfitpack.regrid_smth(x, y, z, xb, xe, yb, ye, kx, ky, s)
regrid_smth(x, y, kx, ky) ==
    {[nx |-> nx, tx |-> Buf("tx", Len(x) + kx + 1), ny |-> ny, ty |-> Buf("ty", Len(y) + ky + 1),
      c |-> Buf("c", Len(x) * Len(y)), fp |-> fp, ier |-> ier] :
        nx \in {2 * (kx + 1), Len(x) + kx + 1}, ny \in {2 * (ky + 1), Len(y) + ky + 1},
        fp \in FpValues, ier \in SurfitIer}

\* RectChecks, as it would be without the test of z.shape[1] against y.size
RectChecks_unshaped(x, y, shape) ==
    IF ~AllDiffPositive(x) THEN "TypeError"
    ELSE IF ~AllDiffPositive(y) THEN "TypeError"
    ELSE IF Len(x) = 0 THEN "ValueError"
    ELSE IF ~(SeqMin(x) = x[1] /\ SeqMax(x) = Last(x)) THEN "TypeError"
    ELSE IF Len(y) = 0 THEN "ValueError"
    ELSE IF ~(SeqMin(y) = y[1] /\ SeqMax(y) = Last(y)) THEN "TypeError"
    ELSE IF ~(Len(x) = shape[1]) THEN "TypeError"
    ELSE "none"

\* the exception the argument checks of RectBivariateSpline.__init__ end in,
\* or "none" when they all pass; min() of an empty axis is numpy's ValueError
RectChecks(x, y, shape) ==
    IF ~AllDiffPositive(x) THEN "TypeError"
    ELSE IF ~AllDiffPositive(y) THEN "TypeError"
    ELSE IF Len(x) = 0 THEN "ValueError"
    ELSE IF ~(SeqMin(x) = x[1] /\ SeqMax(x) = Last(x)) THEN "TypeError"
    ELSE IF Len(y) = 0 THEN "ValueError"
    ELSE IF ~(SeqMin(y) = y[1] /\ SeqMax(y) = Last(y)) THEN "TypeError"
    ELSE IF ~(Len(x) = shape[1]) THEN "TypeError"
    ELSE IF ~(Len(y) = shape[2]) THEN "TypeError"
    ELSE "none"

\* normal_return, as it would be with every status below 1 let through
normal_return_lax(ier) == ier <= 0
\* ier in [0,-1,-2]
normal_return(ier) == ier \in {0, -1, -2}

\* self.fp, self.tck, self.degrees
Surface(fp, tck, degrees) == <<[fp |-> fp, tck |-> tck, degrees |-> degrees]>>

\* RectBivariateSpline.__init__
RectBivariateSpline_init ==
    /\ op = "none"
    /\ \E x \in GridXs, y \in GridYs, shape \in GridShapes, kx \in Degrees, ky \in Degrees :
         /\ op' = "RectBivariateSpline"
         /\ args' = [x |-> x, y |-> y, shape |-> shape, kx |-> kx, ky |-> ky]
         /\ result' = None
         /\ warned' = <<>>
         /\ UNCHANGED curve
         /\ IF RectChecks(x, y, shape) # "none"
            THEN /\ raised' = RectChecks(x, y, shape)
                 /\ calls' = <<>>
                 /\ surf' = surf
            ELSE \E r \in regrid_smth(x, y, kx, ky) :
                   /\ calls' = <<Call("regrid_smth", <<x, y, kx, ky>>, r.ier)>>
                   /\ IF ~normal_return(r.ier)
                      THEN /\ raised' = "ValueError"
                           /\ surf' = surf
                      ELSE /\ raised' = "none"
                           /\ surf' = Surface(r.fp,
                                              <<Slice(r.tx, r.nx), Slice(r.ty, r.ny),
                                                Slice(r.c, (r.nx - kx - 1) * (r.ny - ky - 1))>>,
                                              <<kx, ky>>)

Next ==
    \/ UnivariateSpline_init
    \/ InterpolatedUnivariateSpline_init
    \/ LSQUnivariateSpline_init
    \/ set_smoothing_factor
    \/ call
    \/ roots

Spec == Init /\ [][Next]_vars

NextRect ==
    \/ RectBivariateSpline_init

SpecRect == Init /\ [][NextRect]_vars

\* ------------------------------------------------------- scattered surfaces
\* len(x) = len(y) = len(z) of the scattered data
ScatteredSizes == {4, 16}

\* smoothing factors of a surface fit
SurfS == {0, 1}

\* bbox = xb, xe, yb, ye
SurfBBox == <<0, 3, 0, 3>>

\* interior knots tx, ty a caller passes; the source does not validate them
SurfKnots == SeqsUpTo({1, 2}, MaxSurfKnots)

\* a message of the table that still holds its %i placeholder
Template(key) == <<"_surfit_messages", key>>
\* template % (value)
Format(template, value) == Append(template, value)

\* dfitpack.surfit_smth(x, y, z, w, xb, xe, yb, ye, kx, ky, s, eps, lwrk2)
surfit_smth(m, kx, ky) ==
    {[nx |-> nx, tx |-> Buf("tx", 2 * (kx + 1) + MaxSurfKnots),
      ny |-> ny, ty |-> Buf("ty", 2 * (ky + 1) + MaxSurfKnots),
      c |-> Buf("c", (1 + MaxSurfKnots + kx) * (1 + MaxSurfKnots + ky)),
      fp |-> fp, ier |-> ier] :
        nx \in {2 * (kx + 1), 2 * (kx + 1) + MaxSurfKnots},
        ny \in {2 * (ky + 1), 2 * (ky + 1) + MaxSurfKnots},
        fp \in FpValues, ier \in SurfitIer}

\* smth_warnings, as it would be with every status below 1 passed in silence
smth_warnings_lax(ier) ==
    IF ier <= 0 THEN <<>> ELSE <<SurfitMessage(ier)>>
\* the warnings of SmoothBivariateSpline.__init__ on the status ier
smth_warnings(ier) ==
    IF ier \in {0, -1, -2}
    THEN <<>>
    ELSE <<SurfitMessage(ier)>>

\* SmoothBivariateSpline.__init__
SmoothBivariateSpline_init ==
    /\ op = "none"
    /\ \E m \in ScatteredSizes, kx \in Degrees, ky \in Degrees, s \in SurfS :
         /\ op' = "SmoothBivariateSpline"
         /\ args' = [m |-> m, kx |-> kx, ky |-> ky, s |-> s, bbox |-> SurfBBox]
         /\ result' = None
         /\ raised' = "none"
         /\ UNCHANGED curve
         /\ \E r \in surfit_smth(m, kx, ky) :
              /\ calls' = <<Call("surfit_smth",
                                 [m |-> m, kx |-> kx, ky |-> ky, s |-> s, lwrk2 |-> 1],
                                 r.ier)>>
              /\ warned' = smth_warnings(r.ier)
              /\ surf' = Surface(r.fp,
                                 <<Slice(r.tx, r.nx), Slice(r.ty, r.ny),
                                   Slice(r.c, (r.nx - kx - 1) * (r.ny - ky - 1))>>,
                                 <<kx, ky>>)

\* tx1 = zeros((nx,)); tx1[kx+1:nx-kx-1] = tx
zeros_with(t, n, k) ==
    [i \in 1..n |-> IF i > k + 1 /\ i <= n - k - 1 THEN t[i - k - 1] ELSE 0]

\* dfitpack.surfit_lsq(x, y, z, tx, ty, w, xb, xe, yb, ye, kx, ky, eps, lwrk2):
\* the boundary knots are filled in from the box
surfit_lsq(tx1, ty1, bbox, kx, ky) ==
    {[tx |-> [i \in 1..Len(tx1) |-> IF i <= kx + 1 THEN bbox[1]
                                    ELSE IF i > Len(tx1) - kx - 1 THEN bbox[2]
                                    ELSE tx1[i]],
      ty |-> [i \in 1..Len(ty1) |-> IF i <= ky + 1 THEN bbox[3]
                                    ELSE IF i > Len(ty1) - ky - 1 THEN bbox[4]
                                    ELSE ty1[i]],
      c |-> Buf("c", (Len(tx1) - kx - 1) * (Len(ty1) - ky - 1)),
      fp |-> fp, ier |-> ier] :
        fp \in FpValues, ier \in SurfitIer}

\* needs_workspace, as it would be with the status 10 taken for a size too
needs_workspace_from_ten(ier) == ier >= 10
\* ier>10: the status is the size of the workspace the solver asks for
needs_workspace(ier) == ier > 10

\* the warnings of LSQBivariateSpline.__init__ on the status ier
lsq_warnings(nx, kx, ny, ky, ier) ==
    IF ier \in {0, -1, -2}
    THEN <<>>
    ELSE IF ier < -2
         THEN <<Format(Template(-3), (nx - kx - 1) * (ny - ky - 1) + ier)>>
         ELSE <<SurfitMessage(ier)>>

\* the data and the knots handed to surfit_lsq
LsqArg(m, tx1, ty1, kx, ky, lwrk2) ==
    [m |-> m, tx1 |-> tx1, ty1 |-> ty1, kx |-> kx, ky |-> ky, lwrk2 |-> lwrk2]

\* LSQBivariateSpline.__init__
LSQBivariateSpline_init ==
    /\ op = "none"
    /\ \E m \in ScatteredSizes, tx \in SurfKnots, ty \in SurfKnots,
          kx \in Degrees, ky \in Degrees :
         LET nx == 2 * kx + 2 + Len(tx)
             ny == 2 * ky + 2 + Len(ty)
             tx1 == zeros_with(tx, nx, kx)
             ty1 == zeros_with(ty, ny, ky)
         IN /\ op' = "LSQBivariateSpline"
            /\ args' = [m |-> m, tx |-> tx, ty |-> ty, kx |-> kx, ky |-> ky,
                        bbox |-> SurfBBox]
            /\ result' = None
            /\ raised' = "none"
            /\ UNCHANGED curve
            /\ \E r1 \in surfit_lsq(tx1, ty1, SurfBBox, kx, ky) :
                 LET first == Call("surfit_lsq", LsqArg(m, tx1, ty1, kx, ky, 1), r1.ier)
                 IN IF needs_workspace(r1.ier)
                    THEN \E r2 \in surfit_lsq(r1.tx, r1.ty, SurfBBox, kx, ky) :
                           /\ calls' = <<first,
                                         Call("surfit_lsq",
                                              LsqArg(m, r1.tx, r1.ty, kx, ky, r1.ier),
                                              r2.ier)>>
                           /\ warned' = lsq_warnings(nx, kx, ny, ky, r2.ier)
                           /\ surf' = Surface(r2.fp, <<r2.tx, r2.ty, r2.c>>, <<kx, ky>>)
                    ELSE /\ calls' = <<first>>
                         /\ warned' = lsq_warnings(nx, kx, ny, ky, r1.ier)
                         /\ surf' = Surface(r1.fp, <<r1.tx, r1.ty, r1.c>>, <<kx, ky>>)

NextScattered ==
    \/ SmoothBivariateSpline_init
    \/ LSQBivariateSpline_init

SpecScattered == Init /\ [][NextScattered]_vars

\* ------------------------------------------------------- spherical grid
\* u, v and r.shape a caller passes
SphereUs == {<<0, 1>>, <<1, 0>>}
SphereVs == {<<0, 1>>, <<1, 1>>}
SphereShapes == {<<2, 2>>, <<1, 2>>, <<2, 1>>}

\* a bool option: <<b>> is the bool b, <<n, s>> the pair (n, s)
PoleBools == {<<b>> : b \in BOOLEAN} \cup (BOOLEAN \X BOOLEAN)

\* a pole value: <<>> is None, <<1>> a float
PoleValue == {<<>>, <<1>>}
\* pole_values: <<>> is None, <<<<1>>>> a float, <<n, s>> the pair (n, s)
PoleValues == {<<>>, <<<<1>>>>} \cup (PoleValue \X PoleValue)

\* isinstance(pole_values, NoneType) -> (None, None);
\* isinstance(pole_values, (float, np.float32, np.float64)) -> (v, v)
values_pair(pv) ==
    IF Len(pv) = 0 THEN <<<<>>, <<>>>>
    ELSE IF Len(pv) = 1 THEN <<pv[1], pv[1]>>
    ELSE pv

\* as_pair, as it would be with a single value applied to the first pole only
as_pair_first(b) == IF Len(b) = 1 THEN <<b[1], FALSE>> ELSE b
\* if isinstance(option, bool): option = (option, option)
as_pair(b) == IF Len(b) = 1 THEN <<b[1], b[1]>> ELSE b

\* a bool stored into an integer array
AsInt(b) == IF b THEN 1 ELSE 0

\* iopt = [0, 0, 0]; iopt[1:] = pole_continuity
iopt_of(pc) == <<0, AsInt(as_pair(pc)[1]), AsInt(as_pair(pc)[2])>>

\* ider = [-1, 0, -1, 0], then set from pole_values, pole_exact and pole_flat
ider_of(pv, pe, pf) ==
    <<IF values_pair(pv)[1] = <<>> THEN -1 ELSE AsInt(as_pair(pe)[1]),
      AsInt(as_pair(pf)[1]),
      IF values_pair(pv)[2] = <<>> THEN -1 ELSE AsInt(as_pair(pe)[2]),
      AsInt(as_pair(pf)[2])>>

\* SphereChecks, as it would be without the test of pole_flat[1]
SphereChecks_first_pole(u, v, shape, pc, pf) ==
    IF ~AllDiffPositive(u) THEN "TypeError"
    ELSE IF ~AllDiffPositive(v) THEN "TypeError"
    ELSE IF Len(u) # shape[1] THEN "TypeError"
    ELSE IF Len(v) # shape[2] THEN "TypeError"
    ELSE IF as_pair(pc)[1] = FALSE /\ as_pair(pf)[1] = TRUE THEN "TypeError"
    ELSE "none"
\* the checks of RectSphereBivariateSpline.__init__ before the solver call
SphereChecks(u, v, shape, pc, pf) ==
    IF ~AllDiffPositive(u) THEN "TypeError"
    ELSE IF ~AllDiffPositive(v) THEN "TypeError"
    ELSE IF Len(u) # shape[1] THEN "TypeError"
    ELSE IF Len(v) # shape[2] THEN "TypeError"
    ELSE IF as_pair(pc)[2] = FALSE /\ as_pair(pf)[2] = TRUE THEN "TypeError"
    ELSE IF as_pair(pc)[1] = FALSE /\ as_pair(pf)[1] = TRUE THEN "TypeError"
    ELSE "none"

\* dfitpack.regrid_smth_spher(iopt, ider, u, v, r, r0, r1, s)
regrid_smth_spher(u, v) ==
    {[nu |-> nu, tu |-> Buf("tu", Len(u) + 7), nv |-> 8, tv |-> Buf("tv", Len(v) + 7),
      c |-> Buf("c", (Len(u) + 3) * (Len(v) + 3)), fp |-> fp, ier |-> ier] :
        nu \in {8, Len(u) + 7}, fp \in FpValues, ier \in SurfitIer}

\* RectSphereBivariateSpline.__init__
RectSphereBivariateSpline_init ==
    /\ op = "none"
    /\ \E u \in SphereUs, v \in SphereVs, shape \in SphereShapes,
          pc \in PoleBools, pv \in PoleValues, pe \in PoleBools, pf \in PoleBools :
         /\ op' = "RectSphereBivariateSpline"
         /\ args' = [u |-> u, v |-> v, shape |-> shape, pole_continuity |-> pc,
                     pole_values |-> pv, pole_exact |-> pe, pole_flat |-> pf]
         /\ result' = None
         /\ warned' = <<>>
         /\ UNCHANGED curve
         /\ IF SphereChecks(u, v, shape, pc, pf) # "none"
            THEN /\ raised' = SphereChecks(u, v, shape, pc, pf)
                 /\ calls' = <<>>
                 /\ surf' = surf
            ELSE \E r \in regrid_smth_spher(u, v) :
                   /\ calls' = <<Call("regrid_smth_spher",
                                      [iopt |-> iopt_of(pc), ider |-> ider_of(pv, pe, pf),
                                       u |-> u, v |-> v,
                                       r0 |-> values_pair(pv)[1], r1 |-> values_pair(pv)[2]],
                                      r.ier)>>
                   /\ IF ~normal_return(r.ier)
                      THEN /\ raised' = "ValueError"
                           /\ surf' = surf
                      ELSE /\ raised' = "none"
                           /\ surf' = Surface(r.fp,
                                              <<Slice(r.tu, r.nu), Slice(r.tv, r.nv),
                                                Slice(r.c, (r.nu - 4) * (r.nv - 4))>>,
                                              <<3, 3>>)

NextSphere ==
    \/ RectSphereBivariateSpline_init

SpecSphere == Init /\ [][NextSphere]_vars

\* ------------------------------------------------------- _reset_nest
\* nest as a caller of _reset_nest passes it: <<>> is None, <<v>> a capacity
NestArgs == {<<>>} \cup {<<v>> : v \in {0, 3, 10}}

\* n = data[10]; if not n <= nest: the entry 10 of the data is fp
nest_refused(d, nest) == ~(d.fp <= nest)

\* UnivariateSpline._reset_nest(data, nest) on self._data; the data it
\* returns is handed back to the caller, not stored
reset_nest ==
    /\ Constructed
    /\ \E nest \in NestArgs :
         /\ op' = "_reset_nest"
         /\ args' = [nest |-> nest]
         /\ warned' = <<>>
         /\ UNCHANGED <<curve, surf>>
         /\ IF nest # <<>> /\ nest_refused(data, nest[1])
            THEN /\ raised' = "ValueError"
                 /\ calls' = <<>>
                 /\ result' = None
            ELSE LET a == reset_nest_args(data, IF nest = <<>> THEN MaxNest(data) ELSE nest[1])
                 IN \E d \in fpcurf1(a) :
                      /\ raised' = "none"
                      /\ calls' = <<FitCall("fpcurf1", a.s, a.t.size, d.ier)>>
                      /\ result' = d

NextNest ==
    \/ UnivariateSpline_init
    \/ reset_nest

SpecNest == Init /\ [][NextNest]_vars

\* ------------------------------------------------------- roles
\* the role a class stands for; the LSQ class is the fixed-knots role on an
\* object built from explicit knots and the fixed-s role otherwise
ClassRole(c) ==
    CASE c = "UnivariateSpline" -> "Smoothing"
      [] c = "InterpolatedUnivariateSpline" -> "Interpolating"
      [] c = "LSQUnivariateSpline" ->
            IF ctor = "LSQUnivariateSpline" THEN "LeastSquaresFixedKnots" ELSE "LeastSquaresFixedS"

\* the role of the curve object: its class, and for an object of a subclass
\* (whose class never changes) the recorded _spline_class, or the class whose
\* __init__ built it while none is recorded
Role ==
    IF ~Constructed THEN "Unfit"
    ELSE IF klass \in Builtin THEN ClassRole(klass)
    ELSE IF spline_class # "unset" THEN ClassRole(spline_class)
    ELSE ClassRole(ctor)

\* the last operation was the smoothing fit or a refit, and it called the solver
FitOrRefit == op \in {"UnivariateSpline", "set_smoothing_factor"}
Solved == FitOrRefit /\ calls # <<>>

\* what a holder of a reference to the curve object observes of it
View == <<eval_args, data, Role>>

\* ------------------------------------------------------- claims
\* C1: after every curve fit or refit that invokes the solver, the role is
\* determined by the final status: 0 gives Smoothing, -1 Interpolating,
\* -2 LeastSquaresFixedS, whatever the role was before.
C1_RoleFollowsStatus ==
    Solved =>
        /\ Last(calls).ier = 0 => Role = "Smoothing"
        /\ Last(calls).ier = -1 => Role = "Interpolating"
        /\ Last(calls).ier = -2 => Role = "LeastSquaresFixedS"

\* C2: in the curve fit, status 10 is fatal (an error, no model), and every
\* other status ends without an error, with a model, and with one advisory
\* when it is none of 0, -1, -2.
C2_MalformedInputFatal ==
    (op = "UnivariateSpline" /\ calls # <<>>) =>
        IF Last(calls).ier = 10
        THEN raised # "none" /\ ~Constructed
        ELSE /\ raised = "none"
             /\ Constructed
             /\ Last(calls).ier \notin {0, -1, -2} => Len(warned) = 1

\* C3: a refit of a model whose role is LeastSquaresFixedKnots makes no solver
\* call, emits exactly one advisory, raises nothing and leaves the data, the
\* evaluation arguments and the role as they were, every time it is repeated.
C3_FixedKnotsRefitNoOp ==
    [][(Role = "LeastSquaresFixedKnots" /\ op' = "set_smoothing_factor") =>
          /\ calls' = <<>>
          /\ Len(warned') = 1
          /\ raised' = "none"
          /\ data' = data
          /\ eval_args' = eval_args
          /\ Role' = Role]_vars

C3_Witness ==
    /\ op = "set_smoothing_factor"
    /\ Role = "LeastSquaresFixedKnots"
    /\ args.s = 1
    /\ calls = <<>>
    /\ warned = <<FixedKnotsWarning>>

\* C4: a curve fit or refit calls the solver a second time exactly when the
\* first call returns status 1; the second call is given buffers of capacity
\* m+k+1; there is never a third call, whatever the second returns.
C4_RetryOnce ==
    FitOrRefit =>
        /\ Len(calls) <= 2
        /\ Len(calls) = 2 <=> (Len(calls) >= 1 /\ calls[1].ier = 1)
        /\ Len(calls) = 2 =>
              /\ calls[2].fn = "fpcurf1"
              /\ calls[2].nest = Len(data.x) + data.k + 1

C4_Witness ==
    /\ op = "set_smoothing_factor"
    /\ Len(calls) = 2
    /\ calls[1].ier = 1
    /\ calls[2].ier = 1
    /\ calls[1].nest < calls[2].nest

\* C5 as stated: a refit never changes what a holder of a reference to the
\* model it was called on observes.
C5_RefitNeverMutates ==
    [][op' = "set_smoothing_factor" => View' = View]_vars

\* C5 amended: a refit that calls the solver changes the model it was called
\* on, in place: it returns nothing, and the object then holds the new
\* smoothing factor and the status, capacity and evaluation arguments of the
\* last solver call; a refused refit leaves the object as it was.
C5_RefitInPlace ==
    [][op' = "set_smoothing_factor" =>
          /\ result' = None
          /\ IF calls' = <<>>
             THEN View' = View
             ELSE /\ data'.s = args'.s
                  /\ data'.ier = Last(calls').ier
                  /\ data'.t.size = Last(calls').nest
                  /\ eval_args' = <<Slice(data'.t, data'.n), Slice(data'.c, data'.n), data'.k>>]_vars

C5_Witness ==
    /\ op = "set_smoothing_factor"
    /\ calls # <<>>
    /\ args.s = 1
    /\ data.s = 1
    /\ ctor = "InterpolatedUnivariateSpline"
    /\ Role = "LeastSquaresFixedS"

\* the padded knot vector of the last explicit-knots fit, from its arguments
PaddedArg ==
    Padded(args.t,
           IF args.bbox[1] = <<>> THEN args.x[1] ELSE args.bbox[1][1],
           IF args.bbox[2] = <<>> THEN Last(args.x) ELSE args.bbox[2][1],
           args.k)

\* some span t[i+1]..t[i+k+1] of the knot vector t (indexed from 0) is not
\* degenerate and holds no sample of x, its end points included
SpanWithoutData(t, x, k) ==
    \E i \in 0..(Len(t) - k - 2) :
        /\ t[i + 2] < t[i + k + 2]
        /\ \A j \in DOMAIN x : ~(t[i + 2] <= x[j] /\ x[j] <= t[i + k + 2])

\* the Schoenberg-Whitney conditions fail for want of support: some B-spline
\* has no sample strictly inside its support t[j]..t[j+k+1]
SupportWithoutData(t, x, k) ==
    \E j \in 0..(Len(t) - k - 2) :
        \A i \in DOMAIN x : ~(t[j + 1] < x[i] /\ x[i] < t[j + k + 2])

\* the interior knots are strictly increasing inside (xb, xe)
InteriorAscending(t, k) ==
    \A i \in (k + 1)..(Len(t) - k - 1) : t[i] < t[i + 1]

\* C6: the explicit-knots fit raises before any solver call, and makes no
\* model, on every input in which some knot span of the padded vector holds
\* no data point, and whenever the interior knots are not strictly increasing
\* inside (xb, xe).
C6_SchoenbergWhitneyValidated ==
    (/\ op = "LSQUnivariateSpline"
     /\ \/ SpanWithoutData(PaddedArg, args.x, args.k) /\ SupportWithoutData(PaddedArg, args.x, args.k)
        \/ ~InteriorAscending(PaddedArg, args.k))
    => (raised = "ValueError" /\ calls = <<>> /\ ~Constructed)

\* C7: every model the explicit-knots fit produces has the role
\* LeastSquaresFixedKnots, whatever status the solver returned, and a refit of
\* it is refused.
C7_LSQRoleFixed ==
    (Constructed /\ ctor = "LSQUnivariateSpline") =>
        (Role = "LeastSquaresFixedKnots" /\ refused(data))

\* C8: evaluating a curve model at no query points returns an empty sequence
\* and calls no evaluator, for every model a fit or refit leaves and every
\* derivative order.
C8_EmptyQuery ==
    (op = "__call__" /\ Len(args.x) = 0) =>
        (result.size = 0 /\ calls = <<>> /\ raised = "none")

C8_Witness ==
    /\ op = "__call__"
    /\ args.x = <<>>
    /\ args.nu = 1
    /\ data.ier = 3
    /\ result = Buf("array", 0)

\* C9: roots on a model of degree other than 3 raises the unsupported-operation
\* error without calling the root finder; on a model of degree 3 it calls the
\* root finder once, with the model's knots and coefficients and nothing else.
C9_RootsCubicOnly ==
    op = "roots" =>
        IF data.k # 3
        THEN raised = "NotImplementedError" /\ calls = <<>>
        ELSE /\ Len(calls) = 1
             /\ calls[1].fn = "sproot"
             /\ calls[1].arg = <<Slice(data.t, data.n), Slice(data.c, data.n)>>
             /\ raised # "NotImplementedError"

C9_Witness ==
    /\ op = "roots"
    /\ data.k = 1
    /\ ctor = "UnivariateSpline"
    /\ raised = "NotImplementedError"
    /\ calls = <<>>

\* an axis the grid fit accepts: ascending without ties, first sample the
\* least and last sample the greatest
AxisValid(x) ==
    /\ StrictlyIncreasing(x)
    /\ Len(x) > 0
    /\ \A i \in DOMAIN x : x[1] <= x[i] /\ x[i] <= Last(x)

\* C10: the regular-grid fit raises before any solver call, and makes no model,
\* whenever x or y is not strictly ascending, the first/last sample of an axis
\* is not its min/max, or the shape of z is not (len(x), len(y)).
C10_GridValidated ==
    (/\ op = "RectBivariateSpline"
     /\ \/ ~AxisValid(args.x)
        \/ ~AxisValid(args.y)
        \/ args.shape # <<Len(args.x), Len(args.y)>>)
    => (raised \in {"TypeError", "ValueError"} /\ calls = <<>> /\ surf = NoSurface)

C10_Witness ==
    /\ op = "RectBivariateSpline"
    /\ args.x = <<0, 2, 1>>
    /\ args.y = <<0, 1>>
    /\ args.shape = <<3, 2>>
    /\ raised = "TypeError"
    /\ calls = <<>>

\* what a surface status stands for: 0 is the normal return, -1 the
\* interpolating spline, -2 the least-squares polynomial, anything below -2 a
\* rank-deficient system (the -3 entry of _surfit_messages)
StatusName(ier) ==
    IF ier = 0 THEN "Converged"
    ELSE IF ier = -1 THEN "Interpolating"
    ELSE IF ier = -2 THEN "LeastSquaresPolynomial"
    ELSE IF ier < -2 THEN "RankDeficient"
    ELSE "Other"

\* a surface fit called its solver; the status of the last call
SurfaceSolved(name) == op = name /\ calls # <<>>
FinalIer == Last(calls).ret

\* C11 as stated: in the regular-grid fit every status outside {Converged,
\* LeastSquaresPolynomial, RankDeficient} is fatal (an error, no model) and
\* every status inside it produces a model without an error.
C11_NamedWhitelist ==
    SurfaceSolved("RectBivariateSpline") =>
        IF StatusName(FinalIer) \in {"Converged", "LeastSquaresPolynomial", "RankDeficient"}
        THEN raised = "none" /\ surf # NoSurface
        ELSE raised = "ValueError" /\ surf = NoSurface

\* C11 amended: the statuses that produce a model are the normal return, the
\* interpolating spline and the least-squares polynomial (0, -1, -2); every
\* other status, the rank-deficient ones included, is fatal.
C11_Whitelist ==
    SurfaceSolved("RectBivariateSpline") =>
        IF StatusName(FinalIer) \in {"Converged", "Interpolating", "LeastSquaresPolynomial"}
        THEN raised = "none" /\ surf # NoSurface /\ Len(warned) = 0
        ELSE raised = "ValueError" /\ surf = NoSurface

C11_Witness ==
    /\ SurfaceSolved("RectBivariateSpline")
    /\ FinalIer = -3
    /\ raised = "ValueError"
    /\ surf = NoSurface

\* C12 as stated: the scattered smoothing fit never raises on a status and
\* always returns a model; it gives no advisory for Converged,
\* LeastSquaresPolynomial and RankDeficient and exactly one advisory for every
\* other status.
C12_AdvisoryNamed ==
    SurfaceSolved("SmoothBivariateSpline") =>
        /\ raised = "none"
        /\ surf # NoSurface
        /\ Len(warned) =
             IF StatusName(FinalIer) \in {"Converged", "LeastSquaresPolynomial", "RankDeficient"}
             THEN 0 ELSE 1

\* C12 amended: the silent statuses are the normal return, the interpolating
\* spline and the least-squares polynomial (0, -1, -2); every other status,
\* the rank-deficient ones included, gives exactly one advisory; no status
\* raises and every status returns a model.
C12_Advisory ==
    SurfaceSolved("SmoothBivariateSpline") =>
        /\ raised = "none"
        /\ surf # NoSurface
        /\ Len(warned) =
             IF StatusName(FinalIer) \in {"Converged", "Interpolating", "LeastSquaresPolynomial"}
             THEN 0 ELSE 1

C12_Witness ==
    /\ SurfaceSolved("SmoothBivariateSpline")
    /\ StatusName(FinalIer) = "RankDeficient"
    /\ raised = "none"
    /\ surf # NoSurface
    /\ Len(warned) = 1

\* C13: the explicit-knots surface fit calls the solver a second time exactly
\* when the first status is above 10 (10 itself does not retry), passes that
\* status as the workspace size of the second call, never calls a third time,
\* and derives its advisory from the status of the last call alone.
C13_WorkspaceRetry ==
    SurfaceSolved("LSQBivariateSpline") =>
        /\ Len(calls) = (IF calls[1].ret > 10 THEN 2 ELSE 1)
        /\ calls[1].arg.lwrk2 = 1
        /\ Len(calls) = 2 => calls[2].arg.lwrk2 = calls[1].ret
        /\ \A i \in 1..Len(calls) : calls[i].fn = "surfit_lsq"
        /\ warned = IF FinalIer \in {0, -1, -2}
                    THEN <<>>
                    ELSE IF FinalIer < -2
                         THEN <<<<"_surfit_messages", -3,
                                  (Len(args.tx) + args.kx + 1) * (Len(args.ty) + args.ky + 1)
                                      + FinalIer>>>>
                         ELSE IF FinalIer \in surfit_messages
                              THEN <<<<"_surfit_messages", FinalIer>>>>
                              ELSE <<<<"ier=%s", FinalIer>>>>

C13_Witness ==
    /\ SurfaceSolved("LSQBivariateSpline")
    /\ Len(calls) = 2
    /\ calls[1].ret = 12
    /\ calls[2].arg.lwrk2 = 12
    /\ calls[2].ret = 12
    /\ warned = <<<<"ier=%s", 12>>>>

\* nx and ny of the surface just fitted
KnotCountX == IF op = "LSQBivariateSpline" THEN Len(surf[1].tck[1]) ELSE surf[1].tck[1].size
KnotCountY == IF op = "LSQBivariateSpline" THEN Len(surf[1].tck[2]) ELSE surf[1].tck[2].size

\* C16: a scattered surface fit, smoothing or explicit-knots, that ends with a
\* status below -2 emits the rank-deficiency entry of the table filled in
\* with (nx-kx-1)*(ny-ky-1) + status.
C16_DeficiencyReported ==
    ((SurfaceSolved("SmoothBivariateSpline") \/ SurfaceSolved("LSQBivariateSpline"))
        /\ FinalIer < -2)
    => warned = <<<<"_surfit_messages", -3,
                    (KnotCountX - args.kx - 1) * (KnotCountY - args.ky - 1) + FinalIer>>>>

\* the option as the caller means it at the north and at the south pole
North(option) == option[1]
South(option) == IF Len(option) = 1 THEN option[1] ELSE option[2]

\* C14: the spherical grid fit raises a validation error, with no solver
\* call, whenever pole_flat is True and pole_continuity is False at either
\* pole, whether the options are single values or (north, south) pairs.
C14_PoleConsistency ==
    (/\ op = "RectSphereBivariateSpline"
     /\ \/ North(args.pole_flat) /\ ~North(args.pole_continuity)
        \/ South(args.pole_flat) /\ ~South(args.pole_continuity))
    => (raised = "TypeError" /\ calls = <<>> /\ surf = NoSurface)

C14_Witness ==
    /\ op = "RectSphereBivariateSpline"
    /\ args.u = <<0, 1>> /\ args.v = <<0, 1>> /\ args.shape = <<2, 2>>
    /\ args.pole_continuity = <<TRUE, FALSE>>
    /\ args.pole_flat = <<TRUE>>
    /\ raised = "TypeError"
    /\ calls = <<>>

\* the pole value of one pole and its entry of ider
Exactness(value, exact) == IF value = <<>> THEN -1 ELSE IF exact THEN 1 ELSE 0
NorthValue == IF Len(args.pole_values) = 2 THEN args.pole_values[1]
              ELSE IF Len(args.pole_values) = 1 THEN args.pole_values[1] ELSE <<>>
SouthValue == IF Len(args.pole_values) = 2 THEN args.pole_values[2]
              ELSE IF Len(args.pole_values) = 1 THEN args.pole_values[1] ELSE <<>>

\* C17: in the spherical grid fit a single option value stands for the pair
\* (value, value), and the solver receives iopt = [0, continuity_north,
\* continuity_south] and ider = [e_north, flat_north, e_south, flat_south],
\* with e_pole = -1 when the pole has no value and the 0/1 of pole_exact
\* otherwise.
C17_PoleEncoding ==
    SurfaceSolved("RectSphereBivariateSpline") =>
        /\ calls[1].arg.iopt = <<0, AsInt(North(args.pole_continuity)),
                                    AsInt(South(args.pole_continuity))>>
        /\ calls[1].arg.ider = <<Exactness(NorthValue, North(args.pole_exact)),
                                 AsInt(North(args.pole_flat)),
                                 Exactness(SouthValue, South(args.pole_exact)),
                                 AsInt(South(args.pole_flat))>>
        /\ calls[1].arg.r0 = NorthValue
        /\ calls[1].arg.r1 = SouthValue

C17_Witness ==
    /\ SurfaceSolved("RectSphereBivariateSpline")
    /\ args.pole_continuity = <<TRUE>>
    /\ args.pole_values = <<<<1>>>>
    /\ args.pole_exact = <<TRUE>>
    /\ args.pole_flat = <<TRUE>>
    /\ calls[1].arg.iopt = <<0, 1, 1>>
    /\ calls[1].arg.ider = <<1, 1, 1, 1>>

\* C15: a request to regrow the buffers of a curve model to a capacity below
\* the model's knot count n is rejected with no solver call, and a request
\* with a capacity of n or more is accepted and resizes the buffers to that
\* capacity for the one solver call.
C15_GrowthMonotonic ==
    (op = "_reset_nest" /\ args.nest # <<>>) =>
        IF args.nest[1] < data.n
        THEN raised = "ValueError" /\ calls = <<>>
        ELSE raised = "none" /\ Len(calls) = 1 /\ calls[1].nest = args.nest[1]

\* C18: a curve model made by the smoothing fit never becomes refit-disabled:
\* whatever smoothing factors and statuses came before, a refit of it calls
\* the solver; refit is a no-op only for a model built from explicit knots.
C18_SmoothingFitNeverDisabled ==
    (op = "set_smoothing_factor" /\ ctor # "LSQUnivariateSpline") =>
        (calls # <<>> /\ warned # <<FixedKnotsWarning>>)

\* C19: no fit or refit changes the class of an object of a user-defined
\* subclass (only the tag _spline_class is updated), and for an object of one
\* of the three built-in classes the class and the tag are equal after every
\* reclassification.
C19_SubclassKept ==
    [][/\ klass = Subclass => klass' = Subclass
       /\ (klass' \in Builtin /\ spline_class' # "unset") => klass' = spline_class']_vars

C19_Witness ==
    /\ op = "set_smoothing_factor"
    /\ klass = Subclass
    /\ spline_class = "LSQUnivariateSpline"
    /\ ctor = "InterpolatedUnivariateSpline"
    /\ data.ier = -2

====
